---- MODULE Spec2Model ----
(***************************************************************************)
(* Model of the shared ETL pipeline of orchestrators_tests:                *)
(*   shared/data_generators.py   generate_sample_data                      *)
(*   shared/etl_operations.py    extract_data, transform_data,             *)
(*                               create_summary, load_to_database,         *)
(*                               run_etl_pipeline                          *)
(*   shared/database_utils.py    the relational schema                     *)
(* Money is held in cents (integers); a DataFrame is a sequence of rows,   *)
(* a row is a record of its columns.                                       *)
(***************************************************************************)
EXTENDS Integers, Sequences, FiniteSets, TLC

VARIABLES
    df_in,        \* transform_data: the input DataFrame
    df_out,       \* transform_data(df_in), or <<>> before the call
    df_out2,      \* transform_data(df_out)
    summary,      \* create_summary(df_out)
    tpc,          \* position of the transform/summary scenario
    gen_n,        \* generate_sample_data: num_rows
    gen_seed,     \* state of the random module when the call starts
    gen_format,   \* output_format
    gen_path,     \* output_path: NA (None) or a location
    gen_dir_ok,   \* whether the parent directory of output_path can be created
    gen_status,   \* "pending", "returned" or the exception raised
    gen_df,       \* the DataFrame returned
    gen_file,     \* what is stored at output_path
    db,           \* the relational store: table name -> table
    single_txn,   \* whether DataFrame.to_sql runs DDL and inserts in one transaction
    l_table,      \* load scenario: the table the calls target
    l_size,       \* load scenario: the batch_size the calls pass
    l_count,      \* load scenario: the number of calls made
    l_prev,       \* load scenario: the call before the last one
    l_last,       \* load scenario: the last call
    px,           \* pipeline executions: execution -> its state
    ld,           \* concurrent loads: loader -> the state of its load task
    db0           \* concurrent loads: the store when the loads were submitted

tvars == <<df_in, df_out, df_out2, summary, tpc>>
gvars == <<gen_n, gen_seed, gen_format, gen_path, gen_dir_ok, gen_status, gen_df, gen_file>>
dvars == <<db, single_txn>>
lvars == <<l_table, l_size, l_count, l_prev, l_last>>
cvars == <<ld, db0>>
vars == <<tvars, gvars, dvars, lvars, px, cvars>>

(***************************************************************************)
(* Bounds of the model.                                                    *)
(***************************************************************************)
MaxRows == 3
MaxGenRows == 12
MaxSeed == 2
MaxLoads == 2
MaxRuns == 2

(***************************************************************************)
(* Missing values.  pandas holds a missing string as NaN/None and a        *)
(* missing number as NaN; NaN compares false with every number.            *)
(***************************************************************************)
NA == "<NA>"
NaN == -999999

IsNaN(x) == x = NaN

\* the sequences over S of length at most n
SeqsUpTo(S, n) == UNION {[1..k -> S] : k \in 0..n}

RECURSIVE SumSeq(_)
SumSeq(s) == IF s = <<>> THEN 0 ELSE Head(s) + SumSeq(Tail(s))

\* numpy's round: to the nearest integer, ties to the even one (num >= 0, den > 0)
RoundHalfEven(num, den) ==
    LET q == num \div den
        r == num % den
    IN  IF 2 * r < den THEN q
        ELSE IF 2 * r > den THEN q + 1
        ELSE IF q % 2 = 0 THEN q ELSE q + 1

(***************************************************************************)
(* Dates.  A transaction_date is a day offset from start_date 2023-01-01   *)
(* and a kind: "str" as the generator writes it and the extractor reads    *)
(* it, "ts" once pd.to_datetime has parsed it, "bad" for text that does    *)
(* not parse, "nat" for a missing value.                                   *)
(***************************************************************************)
Date(kind, day) == [kind |-> kind, day |-> day]

\* [mutant] only text is parsed; a value that is a timestamp already is lost
ToDatetimeFromTextOnly(d) ==
    IF d.kind = "str" THEN Date("ts", d.day) ELSE Date("nat", 0)

\* pd.to_datetime on one value; "bad" raises (see TransformRaises)
ToDatetime(d) ==
    CASE d.kind = "str" -> Date("ts", d.day)
      [] d.kind = "ts"  -> d
      [] OTHER          -> Date("nat", 0)

IsLeap(y) == y % 4 = 0

YearLen(y) == IF IsLeap(y) THEN 366 ELSE 365

RECURSIVE YearFrom(_, _)
YearFrom(day, y) == IF day < YearLen(y) THEN y ELSE YearFrom(day - YearLen(y), y + 1)

RECURSIVE DayOfYearFrom(_, _)
DayOfYearFrom(day, y) ==
    IF day < YearLen(y) THEN day ELSE DayOfYearFrom(day - YearLen(y), y + 1)

MonthLen(m, y) ==
    IF m = 2 THEN (IF IsLeap(y) THEN 29 ELSE 28)
    ELSE IF m \in {4, 6, 9, 11} THEN 30 ELSE 31

RECURSIVE MonthFrom(_, _, _)
MonthFrom(doy, m, y) ==
    IF doy < MonthLen(m, y) THEN m ELSE MonthFrom(doy - MonthLen(m, y), m + 1, y)

StartYear == 2023

\* .dt.year, .dt.month, .dt.dayofweek (0 = Monday; 2023-01-01 is a Sunday)
DtYear(d) == IF d.kind = "ts" THEN YearFrom(d.day, StartYear) ELSE NaN
DtMonth(d) ==
    IF d.kind = "ts"
    THEN MonthFrom(DayOfYearFrom(d.day, StartYear), 1, YearFrom(d.day, StartYear))
    ELSE NaN
DtDayOfWeek(d) == IF d.kind = "ts" THEN (6 + d.day) % 7 ELSE NaN
DayNames == <<"Monday", "Tuesday", "Wednesday", "Thursday", "Friday", "Saturday", "Sunday">>
DtDayName(d) == IF d.kind = "ts" THEN DayNames[DtDayOfWeek(d) + 1] ELSE NA
\* NaN >= 5 is False
DtIsWeekend(d) == d.kind = "ts" /\ DtDayOfWeek(d) >= 5

(***************************************************************************)
(* Files: whether there is one at the location, its encoding, its rows.    *)
(***************************************************************************)
File(format, rows) == [exists |-> TRUE, format |-> format, rows |-> rows]

NoFile == [exists |-> FALSE, format |-> NA, rows |-> <<>>]

(***************************************************************************)
(* Rows.                                                                   *)
(***************************************************************************)
RawRow(tid, cid, cat, q, amt, d) ==
    [transaction_id |-> tid, customer_id |-> cid, category |-> cat,
     quantity |-> q, total_amount |-> amt, transaction_date |-> d]

\* the rows the transform scenario draws its input from: valid rows, rows
\* sharing a transaction_id, and rows failing each cleaning rule
RowUniverse ==
    { RawRow("TXN1", "CUST1", "Books", 1, 5000, Date("str", 0)),
      RawRow("TXN2", "CUST1", "Electronics", 2, 5001, Date("str", 6)),
      RawRow("TXN3", "CUST2", "Books", 3, 20001, Date("str", 424)),
      RawRow("TXN1", "CUST2", "Toys", 4, 20000, Date("str", 59)),
      RawRow("TXN1", "CUST1", "Books", 1, -100, Date("str", 0)),
      RawRow("TXN2", "CUST1", "Toys", 1, 0, Date("str", 0)),
      RawRow("TXN2", "CUST2", "Toys", 0, 1500, Date("str", 0)),
      RawRow("TXN3", "CUST1", "Toys", NaN, 1500, Date("str", 0)),
      RawRow(NA, "CUST1", "Books", 1, 1500, Date("str", 0)),
      RawRow("TXN2", NA, "Books", 1, 1500, Date("str", 0)),
      RawRow("TXN3", "CUST1", "Books", 1, NaN, Date("str", 0)),
      RawRow("TXN3", "CUST2", NA, 2, 1505, Date("str", 700)),
      RawRow("TXN2", "CUST2", "Electronics", 1, 1500, Date("bad", 0)),
      RawRow("TXN1", "CUST2", "Electronics", 5, 1500, Date("nat", 0)) }

(***************************************************************************)
(* transform_data                                                          *)
(***************************************************************************)
\* df.drop_duplicates(subset=["transaction_id"]): keeps the first row of each
\* transaction_id; missing ids count as equal to each other
RECURSIVE DropDuplicatesFrom(_, _)
DropDuplicatesFrom(df, seen) ==
    IF df = <<>> THEN <<>>
    ELSE IF Head(df).transaction_id \in seen
         THEN DropDuplicatesFrom(Tail(df), seen)
         ELSE <<Head(df)>> \o
              DropDuplicatesFrom(Tail(df), seen \cup {Head(df).transaction_id})

DropDuplicates(df) == DropDuplicatesFrom(df, {})

\* df.dropna(subset=["transaction_id", "customer_id", "total_amount"])
NotMissing(r) ==
    r.transaction_id # NA /\ r.customer_id # NA /\ ~IsNaN(r.total_amount)

DropNa(df) == SelectSeq(df, NotMissing)

\* df[df["total_amount"] > 0]
AmountPositive(r) == ~IsNaN(r.total_amount) /\ r.total_amount > 0

FilterAmount(df) == SelectSeq(df, AmountPositive)

\* df[df["quantity"] > 0]
QuantityPositive(r) == ~IsNaN(r.quantity) /\ r.quantity > 0

FilterQuantity(df) == SelectSeq(df, QuantityPositive)

\* [mutant] the rows are filtered first and deduplicated last
CleanFilteringFirst(df) == DropDuplicates(FilterQuantity(FilterAmount(DropNa(df))))

\* [mutant] the cleaning steps without drop_duplicates
CleanKeepingDuplicates(df) == FilterQuantity(FilterAmount(DropNa(df)))

\* lines 59-73: the cleaning steps in the order of the code
Clean(df) == FilterQuantity(FilterAmount(DropNa(DropDuplicates(df))))

\* [mutant] left-closed bins, as pd.cut(..., right=False) makes them
CustomerSegmentLeftClosed(amt) ==
    IF IsNaN(amt) \/ amt < 0 THEN NA
    ELSE IF amt < 5000 THEN "low_value"
    ELSE IF amt < 20000 THEN "medium_value"
    ELSE "high_value"

\* pd.cut(total_amount, bins=[0, 50, 200, inf], labels=[...]): right-closed bins
CustomerSegment(amt) ==
    IF IsNaN(amt) \/ amt <= 0 THEN NA
    ELSE IF amt <= 5000 THEN "low_value"
    ELSE IF amt <= 20000 THEN "medium_value"
    ELSE "high_value"

\* (total_amount * 0.3).round(2)
EstimatedProfit(amt) == RoundHalfEven(amt * 3, 10)

\* lines 75-93: the derived columns of one row
Enrich(r) ==
    LET d == ToDatetime(r.transaction_date)
    IN  [transaction_id |-> r.transaction_id,
         customer_id |-> r.customer_id,
         category |-> r.category,
         quantity |-> r.quantity,
         total_amount |-> r.total_amount,
         transaction_date |-> d,
         year |-> DtYear(d),
         month |-> DtMonth(d),
         day_of_week |-> DtDayName(d),
         is_weekend |-> DtIsWeekend(d),
         customer_segment |-> CustomerSegment(r.total_amount),
         estimated_profit |-> EstimatedProfit(r.total_amount)]

\* pd.to_datetime raises on text that is no date: the whole call fails
TransformRaises(df) ==
    \E i \in 1..Len(Clean(df)) : Clean(df)[i].transaction_date.kind = "bad"

transform_data(df) == [i \in 1..Len(Clean(df)) |-> Enrich(Clean(df)[i])]

(***************************************************************************)
(* create_summary                                                          *)
(***************************************************************************)
\* df.groupby("category") sorts the group keys and leaves out missing keys
SortedCategories ==
    <<"Books", "Clothing", "Electronics", "Home & Garden", "Sports", "Toys">>

HasCategory(df, c) == \E i \in 1..Len(df) : df[i].category = c

GroupKeys(df) == SelectSeq(SortedCategories, LAMBDA c : HasCategory(df, c))

Group(df, c) == SelectSeq(df, LAMBDA r : r.category = c)

\* "count": the values that are not missing
CountIds(g) == Len(SelectSeq(g, LAMBDA r : r.transaction_id # NA))

\* "sum" and "mean" skip NaN
Amounts(g) ==
    LET h == SelectSeq(g, LAMBDA r : ~IsNaN(r.total_amount))
    IN  [i \in 1..Len(h) |-> h[i].total_amount]

Quantities(g) ==
    LET h == SelectSeq(g, LAMBDA r : ~IsNaN(r.quantity))
    IN  [i \in 1..Len(h) |-> h[i].quantity]

MeanRounded(xs) == IF xs = <<>> THEN NaN ELSE RoundHalfEven(SumSeq(xs), Len(xs))

SummaryRow(df, c) ==
    LET g == Group(df, c)
    IN  [category |-> c,
         total_transactions |-> CountIds(g),
         total_revenue |-> SumSeq(Amounts(g)),
         avg_order_value |-> MeanRounded(Amounts(g)),
         total_quantity |-> SumSeq(Quantities(g))]

create_summary(df) ==
    [i \in 1..Len(GroupKeys(df)) |-> SummaryRow(df, GroupKeys(df)[i])]

(***************************************************************************)
(* Scenario T: transform_data on any input, transform_data once more on    *)
(* its own output, create_summary on the output.                           *)
(***************************************************************************)
Transform ==
    /\ tpc = "start"
    /\ ~TransformRaises(df_in)
    /\ df_out' = transform_data(df_in)
    /\ tpc' = "transformed"
    /\ UNCHANGED <<df_in, df_out2, summary>>
    /\ UNCHANGED <<gvars, dvars, lvars, px, cvars>>

TransformFails ==
    /\ tpc = "start"
    /\ TransformRaises(df_in)
    /\ tpc' = "error"
    /\ UNCHANGED <<df_in, df_out, df_out2, summary>>
    /\ UNCHANGED <<gvars, dvars, lvars, px, cvars>>

TransformAgain ==
    /\ tpc = "transformed"
    /\ df_out2' = transform_data(df_out)
    /\ tpc' = "twice"
    /\ UNCHANGED <<df_in, df_out, summary>>
    /\ UNCHANGED <<gvars, dvars, lvars, px, cvars>>

CreateSummary ==
    /\ tpc \in {"transformed", "twice"}
    /\ summary' = create_summary(df_out)
    /\ tpc' = "summarised"
    /\ UNCHANGED <<df_in, df_out, df_out2>>
    /\ UNCHANGED <<gvars, dvars, lvars, px, cvars>>

(***************************************************************************)
(* generate_sample_data                                                    *)
(***************************************************************************)
\* the decimal digits of a natural number, most significant first
RECURSIVE Digits(_)
Digits(i) == IF i < 10 THEN <<i>> ELSE Digits(i \div 10) \o <<i % 10>>

RECURSIVE ZeroPad(_, _)
ZeroPad(ds, width) == IF Len(ds) >= width THEN ds ELSE ZeroPad(<<0>> \o ds, width)

\* f"TXN{i:08d}", f"CUST{k:06d}"
TxnId(i) == [prefix |-> "TXN", digits |-> ZeroPad(Digits(i), 8)]
CustId(k) == [prefix |-> "CUST", digits |-> ZeroPad(Digits(k), 6)]

\* the random module: the k-th draw of a call started in state seed
RandomRaw(seed, k) == seed * 7919 + k * 104729 + 12345

\* random.randint(a, b), for a <= b; it raises ValueError when b < a
RandInt(seed, k, a, b) == a + (RandomRaw(seed, k) % (b - a + 1))

\* random.choice(seq)
RandChoice(seed, k, seq) == seq[1 + (RandomRaw(seed, k) % Len(seq))]

GenCategories == <<"Electronics", "Clothing", "Books", "Home & Garden", "Sports", "Toys">>
GenDiscounts == <<0, 5, 10, 15, 20>>

\* the position of each random column among the comprehensions of `data`
ColCustomer == 0
ColCategory == 2
ColQuantity == 3
ColUnitPrice == 4
ColDiscount == 5
ColDate == 8

\* the size of the customer pool
CustomerPool(n) == n \div 10

\* lines 64-66: quantity * unit_price * (1 - discount/100) * (1 + 0.08), 2 decimals
TotalAmount(q, price, discount) ==
    RoundHalfEven(q * price * (100 - discount) * 27, 2500)

GenRow(n, seed, i) ==
    LET q == RandInt(seed, ColQuantity * n + i, 1, 10)
        price == RandInt(seed, ColUnitPrice * n + i, 500, 50000)
        discount == RandChoice(seed, ColDiscount * n + i, GenDiscounts)
    IN  [transaction_id |-> TxnId(i),
         customer_id |-> CustId(RandInt(seed, ColCustomer * n + i, 1, CustomerPool(n))),
         category |-> RandChoice(seed, ColCategory * n + i, GenCategories),
         quantity |-> q,
         unit_price |-> price,
         discount_percent |-> discount,
         total_amount |-> TotalAmount(q, price, discount),
         transaction_date |->
             Date("str", RandInt(seed, ColDate * n + i, 0, 700))]

\* range(num_rows) is empty for num_rows <= 0
RowCount(n) == IF n > 0 THEN n ELSE 0

\* line 37: random.randint(1, num_rows // 10) is evaluated once per row and
\* raises ValueError on the empty range 1..0
GenRaisesValueError(n) == RowCount(n) > 0 /\ CustomerPool(n) < 1

GenData(n, seed) == [i \in 1..RowCount(n) |-> GenRow(n, seed, i - 1)]

\* the call raises while `data` is built: nothing is returned or written
GenerateRaises ==
    /\ gen_status = "pending"
    /\ GenRaisesValueError(gen_n)
    /\ gen_status' = "ValueError"
    /\ UNCHANGED <<gen_n, gen_seed, gen_format, gen_path, gen_dir_ok, gen_df, gen_file>>
    /\ UNCHANGED <<tvars, dvars, lvars, px, cvars>>

\* output_path.parent.mkdir fails
GenerateMkdirFails ==
    /\ gen_status = "pending"
    /\ ~GenRaisesValueError(gen_n)
    /\ gen_path # NA
    /\ ~gen_dir_ok
    /\ gen_status' = "OSError"
    /\ UNCHANGED <<gen_n, gen_seed, gen_format, gen_path, gen_dir_ok, gen_df, gen_file>>
    /\ UNCHANGED <<tvars, dvars, lvars, px, cvars>>

\* the call returns the DataFrame, after writing it when output_path is given
GenerateReturns ==
    /\ gen_status = "pending"
    /\ ~GenRaisesValueError(gen_n)
    /\ gen_path # NA => gen_dir_ok
    /\ gen_df' = GenData(gen_n, gen_seed)
    /\ gen_file' = IF gen_path # NA
                   THEN File(gen_format, GenData(gen_n, gen_seed))
                   ELSE gen_file
    /\ gen_status' = "returned"
    /\ UNCHANGED <<gen_n, gen_seed, gen_format, gen_path, gen_dir_ok>>
    /\ UNCHANGED <<tvars, dvars, lvars, px, cvars>>

(***************************************************************************)
(* The relational store and load_to_database                               *)
(***************************************************************************)
TableNames == {"transactions", "transaction_summary"}

\* a table: whether it exists, whether its schema is the declared one of
\* database_utils (create_tables) or one DataFrame.to_sql derived from a
\* DataFrame, and its rows
Table(exists, declared, rows) == [exists |-> exists, declared |-> declared, rows |-> rows]

AbsentTable == Table(FALSE, FALSE, <<>>)

\* Base.metadata.create_all: creates the tables that do not exist yet
create_tables(d) ==
    [t \in TableNames |-> IF d[t].exists THEN d[t] ELSE Table(TRUE, TRUE, <<>>)]

\* Base.metadata.drop_all
drop_tables(d) == [t \in TableNames |-> AbsentTable]

\* TRUNCATE of both tables in one transaction; it fails, changing nothing,
\* when a table does not exist
truncate_tables(d) ==
    IF \A t \in TableNames : d[t].exists
    THEN [t \in TableNames |-> [d[t] EXCEPT !.rows = <<>>]]
    ELSE d

Min(a, b) == IF a <= b THEN a ELSE b

\* Transaction.transaction_id: unique=True, nullable=False
ViolatesUnique(rows, batch) ==
    LET all == rows \o batch
    IN  \/ \E i \in 1..Len(batch) : batch[i].transaction_id = NA
        \/ \E i, j \in 1..Len(all) :
              i < j /\ j > Len(rows) /\ all[i].transaction_id = all[j].transaction_id

\* the constraints a table enforces on an insert
Constrained(name, tbl) == tbl.declared /\ name = "transactions"

\* the batches of DataFrame.to_sql(chunksize=size, method="multi"), written
\* in order inside one transaction: rows is the table as the transaction sees
\* it, df what is left to write, k the number of the next batch; fault is the
\* number of the batch whose write the store rejects (0: none)
RECURSIVE InsertBatches(_, _, _, _, _, _)
InsertBatches(rows, df, size, k, fault, constrained) ==
    IF df = <<>> THEN [status |-> "ok", rows |-> rows]
    ELSE LET batch == SubSeq(df, 1, Min(size, Len(df)))
             rest == SubSeq(df, Len(batch) + 1, Len(df))
         IN  IF fault = k THEN [status |-> "DBAPIError", rows |-> rows \o batch]
             ELSE IF constrained /\ ViolatesUnique(rows, batch)
                  THEN [status |-> "IntegrityError", rows |-> rows \o batch]
                  ELSE InsertBatches(rows \o batch, rest, size, k + 1, fault, constrained)

\* [mutant] "replace" keeps the rows of the existing table
PreparedTableKeepingRows(tbl, if_exists) ==
    IF tbl.exists THEN tbl ELSE Table(TRUE, FALSE, <<>>)

\* [mutant] "append" starts from an empty table
PreparedTableAlwaysNew(tbl, if_exists) == Table(TRUE, FALSE, <<>>)

\* the table the inserts go to: an existing table is kept under "append" and
\* dropped and created anew under "replace"; a missing one is created
PreparedTable(tbl, if_exists) ==
    IF tbl.exists /\ if_exists = "append" THEN tbl ELSE Table(TRUE, FALSE, <<>>)

\* the table after a failed insert: the insert transaction is rolled back;
\* the DROP/CREATE before it is rolled back too when to_sql holds one
\* transaction for the whole call (pandas from 2.0 on), and stays committed
\* otherwise (earlier pandas); load_to_database adds no transaction of its
\* own, and the pandas version is not fixed by the repository
RolledBack(tbl, prepared, single) == IF single THEN tbl ELSE prepared

ConnectFault == -1

\* [mutant] the "fail" policy is not looked at
NeverRefuses(tbl, if_exists) == FALSE

\* if_exists="fail" refuses a table that exists, with or without rows
RefusesExisting(tbl, if_exists) == tbl.exists /\ if_exists = "fail"

\* df.to_sql(name, engine, if_exists, index=False, chunksize, method="multi")
\* fault: ConnectFault when the store cannot be reached, else as InsertBatches
to_sql(tbl, name, df, if_exists, size, fault, single) ==
    IF fault = ConnectFault THEN [status |-> "OperationalError", table |-> tbl]
    ELSE IF RefusesExisting(tbl, if_exists) THEN [status |-> "ValueError", table |-> tbl]
    ELSE LET prepared == PreparedTable(tbl, if_exists)
             ins == InsertBatches(prepared.rows, df, size, 1, fault,
                                  Constrained(name, prepared))
         IN  IF ins.status = "ok"
             THEN [status |-> "ok", table |-> [prepared EXCEPT !.rows = ins.rows]]
             ELSE [status |-> ins.status, table |-> RolledBack(tbl, prepared, single)]

load_to_database(tbl, name, df, if_exists, size, fault, single) ==
    to_sql(tbl, name, df, if_exists, size, fault, single)

DefaultBatchSize == 10000

(***************************************************************************)
(* Scenario L: a sequence of load_to_database calls on one table, between  *)
(* the maintenance operations of database_utils.                           *)
(***************************************************************************)
LoadRow(tid, cat, amt) == RawRow(tid, "CUST1", cat, 1, amt, Date("str", 0))

\* the DataFrames the load scenario loads
LoadFrames ==
    { <<>>,
      <<LoadRow("TXN1", "Books", 1000)>>,
      <<LoadRow("TXN1", "Books", 1000), LoadRow("TXN2", "Toys", 2000)>>,
      <<LoadRow("TXN3", "Toys", 3000), LoadRow("TXN1", "Sports", 4000)>> }

\* the batch sizes the load scenario passes
BatchSizes == {1, 2, DefaultBatchSize}

Call(op, df, fault, status, before) ==
    [op |-> op, df |-> df, fault |-> fault, status |-> status, before |-> before]

NoCall == Call("none", <<>>, 0, "none", AbsentTable)

Policies == {"fail", "replace", "append"}

\* the faults a call can meet: none, no connection, or the write of any batch
Faults(df, size) == {ConnectFault} \cup (0..((Len(df) + size - 1) \div size))

LoadToDatabase ==
    /\ l_count < MaxLoads
    /\ \E df \in LoadFrames, policy \in Policies :
         \E fault \in Faults(df, l_size) :
           LET r == load_to_database(db[l_table], l_table, df, policy, l_size, fault, single_txn)
           IN  /\ db' = [db EXCEPT ![l_table] = r.table]
               /\ l_last' = Call(policy, df, fault, r.status, db[l_table])
    /\ l_prev' = l_last
    /\ l_count' = l_count + 1
    /\ UNCHANGED <<single_txn, l_table, l_size>>
    /\ UNCHANGED <<tvars, gvars, px, cvars>>

Maintenance(op, d) ==
    /\ l_count < MaxLoads
    /\ db' = d
    /\ l_last' = Call(op, <<>>, 0, "ok", db[l_table])
    /\ l_prev' = l_last
    /\ l_count' = l_count + 1
    /\ UNCHANGED <<single_txn, l_table, l_size>>
    /\ UNCHANGED <<tvars, gvars, px, cvars>>

CreateTables == Maintenance("create_tables", create_tables(db))

DropTables == Maintenance("drop_tables", drop_tables(db))

TruncateTables == Maintenance("truncate_tables", truncate_tables(db))

LNext == LoadToDatabase \/ CreateTables \/ DropTables \/ TruncateTables

(***************************************************************************)
(* The pipeline: run_etl_pipeline and the three orchestration wrappers     *)
(***************************************************************************)
Stages == {"extract", "transform", "summary", "load_main", "load_summary"}

Orchestrators == {"core", "airflow", "dagster", "prefect"}

\* [mutant] the summary load is started together with the summary
DepsLoadWithSummary(orch, stage) ==
    CASE stage = "extract" -> {}
      [] stage = "transform" -> {"extract"}
      [] stage = "summary" -> {"transform"}
      [] stage = "load_main" -> {"transform"}
      [] stage = "load_summary" -> {"transform"}

\* the stages whose completion a stage waits for.  run_etl_pipeline calls the
\* stages one after the other; the Airflow DAG and the Dagster asset graph
\* declare the dependencies; the Prefect flow calls extract, transform and
\* summary in line and then submits the two loads
Deps(orch, stage) ==
    CASE stage = "extract" -> {}
      [] stage = "transform" -> {"extract"}
      [] stage = "summary" -> IF orch = "core" THEN {"load_main"} ELSE {"transform"}
      [] stage = "load_main" -> IF orch = "prefect" THEN {"summary"} ELSE {"transform"}
      [] stage = "load_summary" -> {"summary"}

AirflowRetries == 3
PrefectExtractRetries == 3
PrefectLoadRetries == 2

\* the retries the orchestrator grants a stage
Retries(orch, stage) ==
    CASE orch = "airflow" -> AirflowRetries
      [] orch = "prefect" /\ stage = "extract" -> PrefectExtractRetries
      [] orch = "prefect" /\ stage \in {"load_main", "load_summary"} -> PrefectLoadRetries
      [] OTHER -> 0

\* df.to_json(orient="split") read back by pd.read_json(orient="split"): a
\* timestamp comes back as its epoch milliseconds, as transaction_date is no
\* column name read_json converts to dates
JsonValue(d) == IF d.kind = "ts" THEN Date("ms", d.day) ELSE d

JsonRow(r) ==
    IF "transaction_date" \in DOMAIN r
    THEN [r EXCEPT !.transaction_date = JsonValue(r.transaction_date)]
    ELSE r

JsonRoundTrip(df) == [i \in 1..Len(df) |-> JsonRow(df[i])]

\* how a stage's result reaches the next stage: Airflow passes it through
\* XCom as JSON, the others hand over the DataFrame
Channel(orch, df) == IF orch = "airflow" THEN JsonRoundTrip(df) ELSE df

\* extract_data: the rows of the file; it raises FileNotFoundError when
\* there is no file
extract_data(file) == file.rows

\* data/raw/transactions_small.csv and data/raw/transactions_medium.csv
SmallFile ==
    File("csv", <<RawRow("TXN1", "CUST1", "Books", 1, 5000, Date("str", 0)),
                  RawRow("TXN2", "CUST1", "Toys", 2, 20001, Date("str", 6)),
                  RawRow("TXN1", "CUST2", "Toys", 4, 20000, Date("str", 59)),
                  RawRow("TXN3", "CUST2", "Books", 0, 1500, Date("str", 0))>>)

MediumFile ==
    File("csv", <<RawRow("TXN1", "CUST2", "Sports", 3, 7500, Date("str", 30)),
                  RawRow("TXN4", "CUST1", "Books", 1, 1200, Date("str", 31)),
                  RawRow("TXN5", "CUST2", "Sports", 2, -300, Date("str", 32))>>)

\* the input files of the pipeline scenario
InputFiles ==
    { NoFile,
      File("csv", <<>>),
      SmallFile,
      File("csv", <<RawRow("TXN2", "CUST2", "Electronics", 1, 1500, Date("bad", 0))>>),
      File("csv", <<RawRow("TXN3", "CUST2", NA, 2, 1505, Date("str", 700))>>) }

Execs == {1, 2}

\* an execution: its orchestrator, its input file, per stage the state
\* ("waiting", "done", "failed"), the attempts made in this run and the
\* stages that were done when its last attempt began, the results handed from
\* stage to stage, what the run reported at its end ("none" before that), the
\* number of runs started, and the two tables as they were when a run first
\* had both loads done
Execution(orch, file, state, runs) ==
    [orch |-> orch, file |-> file,
     status |-> [s \in Stages |-> state],
     tries |-> [s \in Stages |-> 0],
     began |-> [s \in Stages |-> {}],
     raw |-> <<>>, transformed |-> <<>>, summary |-> <<>>,
     report |-> "none",
     runs |-> runs,
     first |-> <<>>]

NoExecution == Execution("core", NoFile, "off", 0)

Ready(x, stage) ==
    /\ x.status[stage] = "waiting"
    /\ \A d \in Deps(x.orch, stage) : x.status[d] = "done"

StagesDone(x) == {s \in Stages : x.status[s] = "done"}

\* the stage succeeded
Done(x, stage) ==
    [x EXCEPT !.status[stage] = "done", !.tries[stage] = @ + 1,
              !.began[stage] = StagesDone(x)]

\* the stage raised: the orchestrator runs it again while retries are left
Raised(x, stage) ==
    [x EXCEPT !.tries[stage] = @ + 1,
              !.began[stage] = StagesDone(x),
              !.status[stage] =
                  IF x.tries[stage] + 1 > Retries(x.orch, stage) THEN "failed" ELSE "waiting"]

BothLoaded(x) == x.status["load_main"] = "done" /\ x.status["load_summary"] = "done"

TableRows(d) == [t \in TableNames |-> d[t].rows]

\* remembers the tables of the first run that had both loads done
Remember(x, d) ==
    IF BothLoaded(x) /\ x.first = <<>>
    THEN [x EXCEPT !.first = <<[tables |-> TableRows(d), run |-> x.runs]>>]
    ELSE x

ExtractStage(e) ==
    /\ Ready(px[e], "extract")
    /\ px' = [px EXCEPT ![e] =
                 IF ~px[e].file.exists
                 THEN Raised(px[e], "extract")
                 ELSE [Done(px[e], "extract") EXCEPT
                           !.raw = Channel(px[e].orch, extract_data(px[e].file))]]
    /\ UNCHANGED <<tvars, gvars, dvars, lvars, cvars>>

\* the Dagster asset divides by len(raw_transactions) for its metadata
TransformTaskRaises(orch, raw) ==
    TransformRaises(raw) \/ (orch = "dagster" /\ raw = <<>>)

TransformStage(e) ==
    /\ Ready(px[e], "transform")
    /\ px' = [px EXCEPT ![e] =
                 IF TransformTaskRaises(px[e].orch, px[e].raw)
                 THEN Raised(px[e], "transform")
                 ELSE [Done(px[e], "transform") EXCEPT
                           !.transformed = Channel(px[e].orch, transform_data(px[e].raw))]]
    /\ UNCHANGED <<tvars, gvars, dvars, lvars, cvars>>

SummaryStage(e) ==
    /\ Ready(px[e], "summary")
    /\ px' = [px EXCEPT ![e] =
                 [Done(px[e], "summary") EXCEPT
                      !.summary = Channel(px[e].orch, create_summary(px[e].transformed))]]
    /\ UNCHANGED <<tvars, gvars, dvars, lvars, cvars>>

\* [mutant] the pipeline loads with the default policy of load_to_database
AppendPolicy == "append"

\* the policy every pipeline passes to load_to_database
PipelinePolicy == "replace"

\* a load stage: load_to_database(df, table, DB_URL, if_exists="replace")
LoadStage(e, stage, name, df) ==
    /\ Ready(px[e], stage)
    /\ \E fault \in Faults(df, DefaultBatchSize) :
          LET r == load_to_database(db[name], name, df, PipelinePolicy, DefaultBatchSize,
                                    fault, single_txn)
              d == [db EXCEPT ![name] = r.table]
          IN  /\ db' = d
              /\ px' = [px EXCEPT ![e] =
                           IF r.status = "ok"
                           THEN Remember(Done(px[e], stage), d)
                           ELSE Raised(px[e], stage)]
    /\ UNCHANGED <<single_txn, tvars, gvars, lvars, cvars>>

LoadMainStage(e) == LoadStage(e, "load_main", "transactions", px[e].transformed)

LoadSummaryStage(e) == LoadStage(e, "load_summary", "transaction_summary", px[e].summary)

\* no stage of the run can be started any more
RunOver(x) == x.status["extract"] # "off" /\ \A s \in Stages : ~Ready(x, s)

AllDone(x) == \A s \in Stages : x.status[s] = "done"

\* the stages the Prefect flow function calls in line; the two loads it only
\* submits
InlineStages == {"extract", "transform", "summary"}

\* the metrics step divides by the number of extracted rows (Airflow
\* log_metrics_task, Prefect create_metrics_artifact)
MetricsRaise(x) == x.orch \in {"airflow", "prefect"} /\ Len(x.raw) = 0

\* the run can end.  run_etl_pipeline, a DAG run and an asset job end when no
\* stage is left to run; the Prefect flow function goes on as soon as it has
\* submitted the loads, without waiting for them
CanReport(x) ==
    IF x.orch = "prefect"
    THEN \/ \A s \in InlineStages : x.status[s] = "done"
         \/ \E s \in InlineStages : x.status[s] = "failed"
    ELSE RunOver(x)

\* what the run reports.  run_etl_pipeline prints its success banner and
\* returns after the last stage, and an exception of a stage propagates; a DAG
\* run and an asset job succeed when every task did; the Prefect flow prints
\* the banner and returns its metrics, which makes the flow run Completed,
\* whatever becomes of the submitted loads
RunReport(x) ==
    IF x.orch = "prefect"
    THEN IF (\A s \in InlineStages : x.status[s] = "done") /\ ~MetricsRaise(x)
         THEN "success" ELSE "failed"
    ELSE IF AllDone(x) /\ ~MetricsRaise(x) THEN "success" ELSE "failed"

ReportRun(e) ==
    /\ px[e].report = "none"
    /\ CanReport(px[e])
    /\ px' = [px EXCEPT ![e].report = RunReport(px[e])]
    /\ UNCHANGED <<tvars, gvars, dvars, lvars, cvars>>

\* the pipeline is run again on the same input
StartRun(e) ==
    /\ RunOver(px[e])
    /\ px[e].report # "none"
    /\ px[e].runs < MaxRuns
    /\ px' = [px EXCEPT ![e] =
                 [Execution(px[e].orch, px[e].file, "waiting", px[e].runs + 1)
                     EXCEPT !.first = px[e].first]]
    /\ UNCHANGED <<tvars, gvars, dvars, lvars, cvars>>

PNext ==
    \E e \in Execs :
        \/ ExtractStage(e)
        \/ TransformStage(e)
        \/ SummaryStage(e)
        \/ LoadMainStage(e)
        \/ LoadSummaryStage(e)
        \/ ReportRun(e)
        \/ StartRun(e)

(***************************************************************************)
(* The two loads of the Prefect flow, submitted together: each is a        *)
(* load_to_database call of its own, with its own engine and connection,   *)
(* taken step by step: the table is prepared, the batches are written one  *)
(* by one, the transaction is committed.                                   *)
(***************************************************************************)
Loaders == {"main", "summary"}

\* [mutant] both load tasks write the transactions table
LoaderTableShared(p) == "transactions"

\* the table a load task names
LoaderTable(p) == IF p = "main" THEN "transactions" ELSE "transaction_summary"

\* a load task: the DataFrame it was given, where it is ("off", "ready",
\* "open" while its transaction is open, "done", "failed"), the attempts made
\* and the fault of each, the number of the next batch and the rows still to
\* write, the table as its transaction sees it, the tables it changed in the
\* store, and whether it wrote a batch while the other task had uncommitted
\* batches
Loader(df, pc) ==
    [df |-> df, pc |-> pc, tries |-> 0, faults |-> <<>>, k |-> 1, rest |-> <<>>,
     view |-> AbsentTable, wrote |-> {}, mixed |-> FALSE]

NoLoader == Loader(<<>>, "off")

Other(p) == IF p = "main" THEN "summary" ELSE "main"

\* the attempt raised: its transaction is rolled back, and Prefect runs the
\* task again while retries are left
LoaderRaised(l) ==
    [l EXCEPT !.tries = @ + 1,
              !.pc = IF l.tries + 1 > PrefectLoadRetries THEN "failed" ELSE "ready"]

\* an attempt starts: create_engine, and to_sql up to its first insert.  The
\* DROP/CREATE of "replace" is part of the open transaction when to_sql holds
\* one transaction for the whole call, and is committed at once otherwise
BeginLoad(p) ==
    /\ ld[p].pc = "ready"
    /\ \E fault \in Faults(ld[p].df, l_size) :
          LET name == LoaderTable(p)
              l == [ld[p] EXCEPT !.faults = Append(@, fault)]
              prepared == PreparedTable(db[name], PipelinePolicy)
          IN  IF fault = ConnectFault
              THEN /\ ld' = [ld EXCEPT ![p] = LoaderRaised(l)]
                   /\ db' = db
              ELSE /\ ld' = [ld EXCEPT ![p] =
                                [l EXCEPT !.pc = "open", !.k = 1, !.rest = l.df,
                                          !.view = prepared,
                                          !.wrote = IF single_txn THEN @ ELSE @ \cup {name}]]
                   /\ db' = IF single_txn THEN db ELSE [db EXCEPT ![name] = prepared]
    /\ UNCHANGED <<single_txn, db0, tvars, gvars, lvars, px>>

\* one batch of chunksize rows is inserted inside the open transaction, or
\* the store rejects it and the transaction is rolled back
WriteBatch(p) ==
    /\ ld[p].pc = "open"
    /\ ld[p].rest # <<>>
    /\ LET l == ld[p]
           batch == SubSeq(l.rest, 1, Min(l_size, Len(l.rest)))
           fault == l.faults[Len(l.faults)]
       IN  IF fault = l.k \/ (Constrained(LoaderTable(p), l.view)
                                 /\ ViolatesUnique(l.view.rows, batch))
           THEN ld' = [ld EXCEPT ![p] = LoaderRaised(l)]
           ELSE ld' = [ld EXCEPT ![p] =
                          [l EXCEPT !.k = @ + 1,
                                    !.rest = SubSeq(l.rest, Len(batch) + 1, Len(l.rest)),
                                    !.view.rows = @ \o batch,
                                    !.mixed = @ \/ (ld[Other(p)].pc = "open"
                                                      /\ ld[Other(p)].k > 1)]]
    /\ UNCHANGED <<dvars, db0, tvars, gvars, lvars, px>>

\* every batch is written: the transaction commits and the table becomes
\* what the transaction made of it
CommitLoad(p) ==
    /\ ld[p].pc = "open"
    /\ ld[p].rest = <<>>
    /\ db' = [db EXCEPT ![LoaderTable(p)] = ld[p].view]
    /\ ld' = [ld EXCEPT ![p] =
                 [ld[p] EXCEPT !.pc = "done", !.tries = @ + 1,
                               !.wrote = @ \cup {LoaderTable(p)}]]
    /\ UNCHANGED <<single_txn, db0, tvars, gvars, lvars, px>>

CNext == \E p \in Loaders : BeginLoad(p) \/ WriteBatch(p) \/ CommitLoad(p)

\* the stores the loads can find: no tables, the declared and empty tables,
\* the tables an earlier run left
EarlierRun ==
    [t \in TableNames |->
        Table(TRUE, FALSE,
              IF t = "transactions" THEN transform_data(extract_data(MediumFile))
              ELSE create_summary(transform_data(extract_data(MediumFile))))]

(***************************************************************************)
(* Specifications                                                          *)
(***************************************************************************)
TNext == Transform \/ TransformFails \/ TransformAgain \/ CreateSummary

GNext == GenerateRaises \/ GenerateMkdirFails \/ GenerateReturns

InitTransform ==
    /\ df_in \in SeqsUpTo(RowUniverse, MaxRows)
    /\ df_out = <<>>
    /\ df_out2 = <<>>
    /\ summary = <<>>
    /\ tpc = "start"
    /\ gen_n = 0
    /\ gen_seed = 0
    /\ gen_format = "csv"
    /\ gen_path = NA
    /\ gen_dir_ok = TRUE
    /\ gen_status = "idle"
    /\ gen_df = <<>>
    /\ gen_file = NoFile
    /\ db = [t \in TableNames |-> AbsentTable]
    /\ single_txn = TRUE
    /\ l_table = "transactions"
    /\ l_size = DefaultBatchSize
    /\ l_count = 0
    /\ l_prev = NoCall
    /\ l_last = NoCall
    /\ ld = [p \in Loaders |-> NoLoader]
    /\ db0 = [t \in TableNames |-> AbsentTable]
    /\ px = [e \in Execs |-> NoExecution]

InitGenerate ==
    /\ df_in = <<>>
    /\ df_out = <<>>
    /\ df_out2 = <<>>
    /\ summary = <<>>
    /\ tpc = "idle"
    /\ gen_n \in -2..MaxGenRows
    /\ gen_seed \in 0..MaxSeed
    /\ gen_format \in {"csv", "json", "parquet"}
    /\ gen_path \in {NA, "data/raw/transactions.out"}
    /\ gen_dir_ok \in BOOLEAN
    /\ gen_status = "pending"
    /\ gen_df = <<>>
    /\ gen_file = NoFile
    /\ db = [t \in TableNames |-> AbsentTable]
    /\ single_txn = TRUE
    /\ l_table = "transactions"
    /\ l_size = DefaultBatchSize
    /\ l_count = 0
    /\ l_prev = NoCall
    /\ l_last = NoCall
    /\ ld = [p \in Loaders |-> NoLoader]
    /\ db0 = [t \in TableNames |-> AbsentTable]
    /\ px = [e \in Execs |-> NoExecution]

InitLoad ==
    /\ df_in = <<>>
    /\ df_out = <<>>
    /\ df_out2 = <<>>
    /\ summary = <<>>
    /\ tpc = "idle"
    /\ gen_n = 0
    /\ gen_seed = 0
    /\ gen_format = "csv"
    /\ gen_path = NA
    /\ gen_dir_ok = TRUE
    /\ gen_status = "idle"
    /\ gen_df = <<>>
    /\ gen_file = NoFile
    /\ db \in {[t \in TableNames |-> AbsentTable], create_tables([t \in TableNames |-> AbsentTable])}
    /\ single_txn \in BOOLEAN
    /\ l_table \in TableNames
    /\ l_size \in BatchSizes
    /\ l_count = 0
    /\ l_prev = NoCall
    /\ l_last = NoCall
    /\ ld = [p \in Loaders |-> NoLoader]
    /\ db0 = [t \in TableNames |-> AbsentTable]
    /\ px = [e \in Execs |-> NoExecution]

SpecTransform == InitTransform /\ [][TNext]_vars

SpecGenerate == InitGenerate /\ [][GNext]_vars

SpecLoad == InitLoad /\ [][LNext]_vars

\* one execution of the pipeline, run MaxRuns times on the same input
Init ==
    /\ df_in = <<>>
    /\ df_out = <<>>
    /\ df_out2 = <<>>
    /\ summary = <<>>
    /\ tpc = "idle"
    /\ gen_n = 0
    /\ gen_seed = 0
    /\ gen_format = "csv"
    /\ gen_path = NA
    /\ gen_dir_ok = TRUE
    /\ gen_status = "idle"
    /\ gen_df = <<>>
    /\ gen_file = NoFile
    /\ db \in {[t \in TableNames |-> AbsentTable], create_tables([t \in TableNames |-> AbsentTable])}
    /\ single_txn \in BOOLEAN
    /\ l_table = "transactions"
    /\ l_size = DefaultBatchSize
    /\ l_count = 0
    /\ l_prev = NoCall
    /\ l_last = NoCall
    /\ ld = [p \in Loaders |-> NoLoader]
    /\ db0 = [t \in TableNames |-> AbsentTable]
    /\ \E orch \in Orchestrators, file \in InputFiles :
          px = [e \in Execs |-> IF e = 1 THEN Execution(orch, file, "waiting", 1)
                                ELSE NoExecution]

Spec == Init /\ [][PNext]_vars

\* two executions of one orchestrator on different inputs, as the small and
\* the medium DAG, job or flow, both writing transactions and
\* transaction_summary; each is run once
TwoRunsNext ==
    \E e \in Execs :
        \/ ExtractStage(e)
        \/ TransformStage(e)
        \/ SummaryStage(e)
        \/ LoadMainStage(e)
        \/ LoadSummaryStage(e)
        \/ ReportRun(e)

InitTwoRuns ==
    /\ df_in = <<>>
    /\ df_out = <<>>
    /\ df_out2 = <<>>
    /\ summary = <<>>
    /\ tpc = "idle"
    /\ gen_n = 0
    /\ gen_seed = 0
    /\ gen_format = "csv"
    /\ gen_path = NA
    /\ gen_dir_ok = TRUE
    /\ gen_status = "idle"
    /\ gen_df = <<>>
    /\ gen_file = NoFile
    /\ db = [t \in TableNames |-> AbsentTable]
    /\ single_txn \in BOOLEAN
    /\ l_table = "transactions"
    /\ l_size = DefaultBatchSize
    /\ l_count = 0
    /\ l_prev = NoCall
    /\ l_last = NoCall
    /\ ld = [p \in Loaders |-> NoLoader]
    /\ db0 = [t \in TableNames |-> AbsentTable]
    /\ \E orch \in Orchestrators :
          px = [e \in Execs |-> Execution(orch, IF e = 1 THEN SmallFile ELSE MediumFile,
                                          "waiting", 1)]

SpecTwoRuns == InitTwoRuns /\ [][TwoRunsNext]_vars

\* the flow has transformed and summarised its input and submits the loads
InitLoaders ==
    /\ df_in = <<>>
    /\ df_out = <<>>
    /\ df_out2 = <<>>
    /\ summary = <<>>
    /\ tpc = "idle"
    /\ gen_n = 0
    /\ gen_seed = 0
    /\ gen_format = "csv"
    /\ gen_path = NA
    /\ gen_dir_ok = TRUE
    /\ gen_status = "idle"
    /\ gen_df = <<>>
    /\ gen_file = NoFile
    /\ db \in {[t \in TableNames |-> AbsentTable],
               create_tables([t \in TableNames |-> AbsentTable]),
               EarlierRun}
    /\ db0 = db
    /\ single_txn \in BOOLEAN
    /\ l_table = "transactions"
    /\ l_size \in BatchSizes
    /\ l_count = 0
    /\ l_prev = NoCall
    /\ l_last = NoCall
    /\ px = [e \in Execs |-> NoExecution]
    /\ \E file \in {SmallFile, File("csv", <<>>)} :
          ld = [p \in Loaders |->
                   Loader(IF p = "main" THEN transform_data(extract_data(file))
                          ELSE create_summary(transform_data(extract_data(file))),
                          "ready")]

SpecLoaders == InitLoaders /\ [][CNext]_vars

(***************************************************************************)
(* Properties of transform_data and create_summary (SpecTransform)         *)
(***************************************************************************)
Transformed == tpc \in {"transformed", "twice", "summarised"}

NoDuplicateIds(df) ==
    \A i, j \in 1..Len(df) : i # j => df[i].transaction_id # df[j].transaction_id

\* C1: the output of transform_data has no row with total_amount <= 0 or
\* quantity <= 0, no row with a missing transaction_id, customer_id or
\* total_amount, no two rows with the same transaction_id, and at most as
\* many rows as the input.
C1_CleanOutput ==
    Transformed =>
        /\ \A i \in 1..Len(df_out) :
              /\ ~IsNaN(df_out[i].total_amount) /\ df_out[i].total_amount > 0
              /\ ~IsNaN(df_out[i].quantity) /\ df_out[i].quantity > 0
              /\ df_out[i].transaction_id # NA
              /\ df_out[i].customer_id # NA
        /\ NoDuplicateIds(df_out)
        /\ Len(df_out) <= Len(df_in)

\* an input with two rows that pass every filter and share a transaction_id,
\* and a row with a non-positive amount, has been transformed
C1_Witness ==
    /\ tpc = "transformed"
    /\ Len(df_out) >= 1
    /\ \E i, j \in 1..Len(df_in) :
          /\ i < j
          /\ df_in[i].transaction_id = df_in[j].transaction_id
          /\ Clean(<<df_in[i]>>) # <<>> /\ Clean(<<df_in[j]>>) # <<>>
    /\ \E k \in 1..Len(df_in) : ~AmountPositive(df_in[k])

\* C6: transform_data applied to its own output returns that output, row
\* for row and column for column.
C6_Idempotent == tpc = "twice" => df_out2 = df_out

\* transform_data ran twice on an input it both filtered and enriched
C6_Witness ==
    /\ tpc = "twice"
    /\ Len(df_out) >= 2
    /\ Len(df_in) > Len(df_out)
    /\ df_out2 = df_out

CategoriesOf(df) == {df[i].category : i \in 1..Len(df)} \ {NA}

RowsOfCategory(df, c) == {i \in 1..Len(df) : df[i].category = c}

TotalTransactions(s) == SumSeq([i \in 1..Len(s) |-> s[i].total_transactions])

\* C7: create_summary returns exactly one row per category of the input, with
\* total_transactions the number of input rows of the category and
\* total_quantity the sum of their quantity, so that the total_transactions
\* values add up to the number of input rows.
C7_SummaryCounts ==
    tpc = "summarised" =>
        /\ {summary[i].category : i \in 1..Len(summary)} = CategoriesOf(df_out)
        /\ \A i, j \in 1..Len(summary) : i # j => summary[i].category # summary[j].category
        /\ \A i \in 1..Len(summary) :
              /\ summary[i].total_transactions =
                     Cardinality(RowsOfCategory(df_out, summary[i].category))
              /\ summary[i].total_quantity =
                     SumSeq(Quantities(Group(df_out, summary[i].category)))
        /\ TotalTransactions(summary) = Len(df_out)

(***************************************************************************)
(* Properties of generate_sample_data (SpecGenerate)                       *)
(***************************************************************************)
GenDone == gen_status \notin {"pending", "idle"}

\* C8: for every positive n, generate_sample_data(n) returns exactly n rows
\* with pairwise distinct transaction_id values.
C8_GeneratesNRows ==
    (GenDone /\ gen_n > 0 /\ (gen_path # NA => gen_dir_ok)) =>
        /\ gen_status = "returned"
        /\ Len(gen_df) = gen_n
        /\ NoDuplicateIds(gen_df)

\* C9: for n <= 0 generate_sample_data fails, returns no record set and
\* writes no file.
C9_RejectsNonPositive ==
    (GenDone /\ gen_n <= 0) =>
        /\ gen_status \notin {"returned"}
        /\ gen_file = NoFile

(***************************************************************************)
(* Properties of load_to_database (SpecLoad)                               *)
(***************************************************************************)
Loaded(call, policy) == call.op = policy /\ call.status = "ok"

InFrame(r, df) == \E i \in 1..Len(df) : df[i] = r

\* C2: after a "replace" load of A and then a "replace" load of B into the
\* same table, the rows of the table are exactly the rows of B.
C2_ReplaceLeavesOnlyB ==
    (Loaded(l_prev, "replace") /\ Loaded(l_last, "replace")) =>
        /\ db[l_table].exists
        /\ db[l_table].rows = l_last.df

\* A and B were loaded, both with rows, and A has a row that B has not
C2_Witness ==
    /\ Loaded(l_prev, "replace") /\ Loaded(l_last, "replace")
    /\ l_last.df # <<>>
    /\ \E i \in 1..Len(l_prev.df) : ~InFrame(l_prev.df[i], l_last.df)
    /\ db[l_table].rows = l_last.df

\* C3: after an "append" load of A and then an "append" load of B into the
\* same table, the table holds what it held before, then the rows of A, then
\* the rows of B: |A| + |B| rows for a table that was empty or missing.
C3_AppendKeepsBoth ==
    (Loaded(l_prev, "append") /\ Loaded(l_last, "append")) =>
        /\ db[l_table].rows = l_prev.before.rows \o l_prev.df \o l_last.df
        /\ l_prev.before.rows = <<>> =>
              Len(db[l_table].rows) = Len(l_prev.df) + Len(l_last.df)

\* A and B, both with rows, were appended to an empty table in several batches
C3_Witness ==
    /\ Loaded(l_prev, "append") /\ Loaded(l_last, "append")
    /\ l_prev.before.rows = <<>>
    /\ Len(l_prev.df) = 2 /\ Len(l_last.df) = 2
    /\ l_size = 1
    /\ Len(db[l_table].rows) = 4

\* C4: when a batch write fails during a "replace" load, the table holds
\* either exactly its old contents or exactly the new record set.
C4_ReplaceAtomic ==
    (l_last.op = "replace" /\ l_last.fault >= 1) =>
        \/ db[l_table].rows = l_last.before.rows
        \/ db[l_table].rows = l_last.df

\* C10: a "fail" load into a table that holds data fails, with the
\* already-exists error whenever the store was reached, and leaves the table
\* as it was.
C10_FailPolicyRefuses ==
    (l_last.op = "fail" /\ l_last.before.rows # <<>>) =>
        /\ l_last.status # "ok"
        /\ l_last.fault # ConnectFault => l_last.status = "ValueError"
        /\ db[l_table] = l_last.before

\* a "fail" load of rows reached the store and found a table holding data
C10_Witness ==
    /\ l_last.op = "fail"
    /\ l_last.before.rows # <<>>
    /\ l_last.df # <<>>
    /\ l_last.fault = 0
    /\ l_last.status = "ValueError"

(***************************************************************************)
(* Properties of the pipeline (Spec)                                       *)
(***************************************************************************)
\* what one run without failures loads into the two tables
ExpectedTransformed(orch, file) ==
    Channel(orch, transform_data(Channel(orch, extract_data(file))))

ExpectedSummary(orch, file) ==
    Channel(orch, create_summary(ExpectedTransformed(orch, file)))

\* C5: whatever the number of retried load attempts and of re-runs on the same
\* input, once both loads of a run are done the two tables hold what they
\* held after the first run that completed them, which is what a single
\* run without failures loads.
C5_ReplaceIdempotent ==
    \A e \in Execs :
        BothLoaded(px[e]) =>
            /\ px[e].first # <<>>
            /\ TableRows(db) = px[e].first[1].tables
            /\ db["transactions"].rows = ExpectedTransformed(px[e].orch, px[e].file)
            /\ db["transaction_summary"].rows = ExpectedSummary(px[e].orch, px[e].file)

\* a re-run, after a first run that completed, loaded rows again and had its
\* main load retried after a failed attempt
C5_Witness ==
    /\ px[1].runs = 2
    /\ BothLoaded(px[1])
    /\ px[1].first # <<>>
    /\ px[1].first[1].run = 1
    /\ px[1].tries["load_main"] >= 2
    /\ Len(db["transactions"].rows) = 2
    /\ Len(db["transaction_summary"].rows) = 2

(***************************************************************************)
(* The unique key of transactions under "append" (SpecLoad)                *)
(***************************************************************************)
HoldsId(rows, tid) == \E i \in 1..Len(rows) : rows[i].transaction_id = tid

\* an append load that reached the store with a row whose transaction_id the
\* table held already
AppendOfPresentId(call) ==
    /\ call.op = "append"
    /\ call.fault # ConnectFault
    /\ \E i \in 1..Len(call.df) : HoldsId(call.before.rows, call.df[i].transaction_id)

\* C11: after any sequence of loads into transactions, an append load with a
\* row whose transaction_id is already in the table fails with the
\* constraint error, and the table never holds two rows with the same
\* transaction_id.
C11_AppendRejectsDuplicate ==
    l_table = "transactions" =>
        /\ AppendOfPresentId(l_last) => l_last.status \in {"IntegrityError", "DBAPIError"}
        /\ NoDuplicateIds(db["transactions"].rows)

(***************************************************************************)
(* customer_segment and the order of the cleaning steps (SpecTransform)    *)
(***************************************************************************)
\* C12: in the output of transform_data customer_segment is low_value iff
\* 0 < total_amount <= 50, medium_value iff 50 < total_amount <= 200 and
\* high_value iff total_amount > 200; 50.00 is low, 50.01 and 200.00 are
\* medium, 200.01 is high, and no row has a missing customer_segment.
C12_SegmentBoundaries ==
    Transformed =>
        \A i \in 1..Len(df_out) :
            LET amt == df_out[i].total_amount
                seg == df_out[i].customer_segment
            IN  /\ seg \in {"low_value", "medium_value", "high_value"}
                /\ seg = "low_value" <=> (0 < amt /\ amt <= 5000)
                /\ seg = "medium_value" <=> (5000 < amt /\ amt <= 20000)
                /\ seg = "high_value" <=> amt > 20000
                /\ amt = 5000 => seg = "low_value"
                /\ amt = 5001 => seg = "medium_value"
                /\ amt = 20000 => seg = "medium_value"
                /\ amt = 20001 => seg = "high_value"

HasSegment(df, amt, seg) ==
    \E i \in 1..Len(df) : df[i].total_amount = amt /\ df[i].customer_segment = seg

\* rows on both sides of the 200 boundary and just above the 50 boundary
\* were transformed
C12_Witness ==
    /\ tpc = "transformed"
    /\ HasSegment(df_out, 5001, "medium_value")
    /\ HasSegment(df_out, 20000, "medium_value")
    /\ HasSegment(df_out, 20001, "high_value")

\* the first row of the input with the transaction_id
FirstOccurrence(df, tid) ==
    df[CHOOSE i \in 1..Len(df) :
          /\ df[i].transaction_id = tid
          /\ \A j \in 1..(i - 1) : df[j].transaction_id # tid]

\* the row passes every cleaning rule on its own
ValidRow(r) ==
    /\ r.transaction_id # NA /\ r.customer_id # NA /\ r.total_amount # NaN
    /\ r.total_amount > 0
    /\ r.quantity # NaN /\ r.quantity > 0

SameFields(out, r) ==
    /\ out.transaction_id = r.transaction_id
    /\ out.customer_id = r.customer_id
    /\ out.category = r.category
    /\ out.quantity = r.quantity
    /\ out.total_amount = r.total_amount
    /\ out.transaction_date.day = r.transaction_date.day

\* C16: transform_data deduplicates before it filters: the output has a row
\* with a transaction_id of the input iff the first occurrence of the id in
\* the input passes every cleaning rule, and that output row carries the
\* field values of the first occurrence.
C16_DedupBeforeFilter ==
    Transformed =>
        \A k \in 1..Len(df_in) :
            LET tid == df_in[k].transaction_id
                first == FirstOccurrence(df_in, tid)
            IN  /\ HoldsId(df_out, tid) <=> ValidRow(first)
                /\ \A i \in 1..Len(df_out) :
                      df_out[i].transaction_id = tid => SameFields(df_out[i], first)

\* the first row of an id fails a rule, a later row of the id passes them
\* all, and the output has another id but not this one
C16_Witness ==
    /\ tpc = "transformed"
    /\ Len(df_out) >= 1
    /\ \E i, j \in 1..Len(df_in) :
          /\ i < j
          /\ df_in[i].transaction_id = df_in[j].transaction_id
          /\ df_in[i].transaction_id # NA
          /\ df_in[i] = FirstOccurrence(df_in, df_in[i].transaction_id)
          /\ ~ValidRow(df_in[i])
          /\ ValidRow(df_in[j])
          /\ ~HoldsId(df_out, df_in[i].transaction_id)

(***************************************************************************)
(* Order of the stages and failed stages (Spec)                            *)
(***************************************************************************)
\* the stages whose result a stage works on
Needs(stage) ==
    CASE stage = "extract" -> {}
      [] stage = "transform" -> {"extract"}
      [] stage = "summary" -> {"transform"}
      [] stage = "load_main" -> {"transform"}
      [] stage = "load_summary" -> {"summary"}

\* the stages a stage follows
Upstream(stage) ==
    CASE stage = "extract" -> {}
      [] stage = "transform" -> {"extract"}
      [] stage = "summary" -> {"extract", "transform"}
      [] stage = "load_main" -> {"extract", "transform"}
      [] stage = "load_summary" -> {"extract", "transform", "summary"}

\* C13: within one execution, under run_etl_pipeline and under each of the
\* three wrappers, whenever a stage begins the stages it depends on are done:
\* transform after extract, summary and the main load after transform, the
\* summary load after summary.
C13_StagesInOrder ==
    \A e \in Execs : \A s \in Stages :
        px[e].tries[s] > 0 => Needs(s) \subseteq px[e].began[s]

\* a Prefect run completed every stage on rows, the summary load finishing
\* before the main load began
C13_Witness ==
    /\ px[1].orch = "prefect"
    /\ AllDone(px[1])
    /\ Len(px[1].transformed) >= 2
    /\ "load_summary" \in px[1].began["load_main"]

\* C14: once a stage of a run has failed, no stage that follows it is
\* executed, and the run does not report successful completion.
C14_FailedStageAborts ==
    \A e \in Execs :
        /\ \A s \in Stages :
              px[e].tries[s] > 0 => \A d \in Upstream(s) : px[e].status[d] # "failed"
        /\ (\E s \in Stages : px[e].status[s] = "failed") => px[e].report # "success"

(***************************************************************************)
(* Two executions on the same tables (SpecTwoRuns)                         *)
(***************************************************************************)
\* C17: for any interleaving of two executions on different inputs, once
\* both have completed every stage the transaction_summary table is
\* create_summary of the rows the transactions table then holds.
C17_SummaryOfTransactions ==
    (\A e \in Execs : AllDone(px[e])) =>
        db["transaction_summary"].rows = create_summary(db["transactions"].rows)

(***************************************************************************)
(* Independence of the two loads (SpecLoaders)                             *)
(***************************************************************************)
LoaderOver(l) == l.pc \in {"done", "failed"}

\* the table after the attempts of a load task, made one after the other
\* with nothing else running
RECURSIVE AfterAttempts(_, _, _, _)
AfterAttempts(tbl, name, df, faults) ==
    IF faults = <<>> THEN tbl
    ELSE AfterAttempts(
             load_to_database(tbl, name, df, PipelinePolicy, l_size, Head(faults),
                              single_txn).table,
             name, df, Tail(faults))

\* the store after the load task p ran alone on the store d
RunAlone(d, p) ==
    [d EXCEPT ![LoaderTable(p)] =
        AfterAttempts(d[LoaderTable(p)], LoaderTable(p), ld[p].df, ld[p].faults)]

\* C15: under every interleaving of the steps of the main load and of the
\* summary load, the store ends as when the two loads run one after the
\* other, in either order, and at no time has a load changed the other's
\* table.
C15_LoadsIndependent ==
    /\ ld["main"].wrote \subseteq {"transactions"}
    /\ ld["summary"].wrote \subseteq {"transaction_summary"}
    /\ (\A p \in Loaders : LoaderOver(ld[p])) =>
          /\ db = RunAlone(RunAlone(db0, "main"), "summary")
          /\ db = RunAlone(RunAlone(db0, "summary"), "main")

\* both loads replaced a table holding rows, in several batches each, every
\* one writing while the other had batches not yet committed, the main load
\* after a failed attempt
C15_Witness ==
    /\ \A p \in Loaders : ld[p].pc = "done" /\ ld[p].mixed /\ Len(ld[p].df) = 2
    /\ l_size = 1
    /\ ld["main"].tries >= 2
    /\ db0["transactions"].rows # <<>>
    /\ db["transactions"].rows = ld["main"].df
    /\ db["transaction_summary"].rows = ld["summary"].df

====
